---- MODULE Spec2Model ----
(***************************************************************************)
(* Contract Engine: analyze_contract (src/engine.py) as a state machine.   *)
(*                                                                         *)
(* One analysis call runs synchronously between its network calls, so the  *)
(* actions are the blocks of code between the two completion-endpoint      *)
(* round-trips:                                                            *)
(*   Begin          lines 145-214  build the prompt, issue the first call  *)
(*   FirstResponse  lines 216-272  trim, strict parse, tolerant parse, and *)
(*                                 either issue the repair call or         *)
(*                                 materialise and return                  *)
(*   FirstFailure   line  205      the first call raises                   *)
(*   RepairResponse lines 260-272  trim, strict parse, materialise         *)
(*   RepairFailure  line  249      the repair call raises                  *)
(*                                                                         *)
(* A text is a sequence of lexical chunks plus the JSON value its value    *)
(* chunks denote.  json and pydantic are modelled by what they do on these *)
(* texts and values.  Modelling assumptions: JSON nesting stays below the  *)
(* interpreter's recursion limit, and every response has one choice.       *)
(*                                                                         *)
(* Specifications:                                                         *)
(*   Spec           one call, any response texts                           *)
(*   SpecRoundTrip  one call answered by documents that match the schema   *)
(*   SpecPrompt     one call with any arguments (the prompt builder)       *)
(*   SpecPage       the Streamlit page: Validate License and Run Analysis  *)
(*                  (src/app_streamlit.py)                                 *)
(*   SpecRequests   several requests of the web service at the same time   *)
(*                  (src/api.py)                                           *)
(***************************************************************************)
EXTENDS Integers, Sequences, FiniteSets, TLC

VARIABLES
    pydantic,   \* installed pydantic major version: "v1" or "v2"
    apiKey,     \* whether OPENAI_API_KEY is set in the environment
    pc,         \* position of the call: idle, call1, call2, returned, raised
    calls,      \* completion-endpoint calls issued so far, in order
    resp1,      \* raw first response (NoResp until received)
    resp2,      \* raw repair response (NoResp until received)
    content,    \* local `content`  (engine.py:216)
    repaired,   \* local `repaired` (engine.py:260)
    parses,     \* parse attempts made so far, in order
    data,       \* local `data` (decoded JSON value)
    result,     \* the returned AnalysisResult
    error,      \* the exception that left analyze_contract
    args,       \* the call's arguments: contract_text, party_role, deal_context
    user_prompt,\* local `user_prompt` (engine.py:150), with role_text and
                \* context_text as embedded in it
    cur,        \* the request whose analyze_contract frame is running
    reqs,       \* the frames of the requests that are not running
    gumroad,    \* which of GUMROAD_PRODUCT_ID / _PERMALINK is configured
    session,    \* st.session_state: the four license fields
    posted,     \* what the last verify_license posted to the license server
    ui          \* what the last Run Analysis click led to

\* the process environment
env == <<pydantic, apiKey, gumroad>>

\* the request frames of the web service
threads == <<cur, reqs>>

\* the Streamlit session
app == <<session, posted, ui>>

vars == <<pydantic, apiKey, pc, calls, resp1, resp2, content, repaired,
          parses, data, result, error, args, user_prompt, cur, reqs,
          gumroad, session, posted, ui>>

----------------------------------------------------------------------------
(* Bounds *)

\* largest number of whitespace chunks on either side of a response text
MaxPad == 1

\* largest number of defects (edits of the well-formed document) in a value
MaxEdits == 2

\* number of requests the web service handles at the same time
MaxRequests == 2

----------------------------------------------------------------------------
(* Schema: engine.py lines 13-55 *)

RiskLevel == {"High", "Medium", "Low", "Unknown"}

Category == {"Liability", "HSE", "Payment", "Termination", "Legal"}

\* a value outside both closed sets
BadEnum == "Critical"

\* Python None
None == "None"

Required == {"overallRisk", "keyCommercials", "scope", "compliance",
             "detailedAnalysis"}

\* a dict without key k (the key is absent from the decoded JSON object)
Without(r, k) == [x \in DOMAIN r \ {k} |-> r[x]]

\* dict.get(k, default)                                  engine.py:267-268
Get(r, k, default) == IF k \in DOMAIN r THEN r[k] ELSE default

----------------------------------------------------------------------------
(* JSON values a response text can denote.  The well-formed document is    *)
(* the template of the user prompt (engine.py:161-196) filled in; the      *)
(* other documents are that one with up to MaxEdits defects.               *)

BaseItem(cat, lvl) ==
    [category |-> cat, riskLevel |-> lvl, description |-> "desc",
     mitigation |-> "mitigate"]

BaseObj ==
    [overallRisk |-> "Low",
     keyCommercials |-> [value |-> "USD 100,000", duration |-> "30 days",
                         contractType |-> "supply", pricingModel |-> "fixed",
                         renewalTerms |-> None],
     executiveSummary |-> <<"- one", "- two">>,
     riskMatrix |-> <<BaseItem("Liability", "High"), BaseItem("HSE", "Unknown")>>,
     scope |-> [pricingModel |-> "fixed", paymentTerms |-> "net 30",
                deliverables |-> <<"goods">>],
     compliance |-> [summary |-> "none found", overallComplianceRisk |-> "Medium",
                     sanctionsFlags |-> <<"flag">>, adverseMedia |-> <<>>,
                     financialSignals |-> <<"signal">>],
     detailedAnalysis |-> "## Commercial & Financial Profile"]

Edit(op, at, key, idx) == [op |-> op, at |-> at, key |-> key, idx |-> idx]

Edits ==
    {Edit("del", "top", k, 0) : k \in Required \cup {"executiveSummary", "riskMatrix"}}
    \cup {Edit("bad", "top", "overallRisk", 0)}
    \cup {Edit("del", "scope", "deliverables", 0)}
    \cup {Edit("del", "compliance", k, 0) :
            k \in {"sanctionsFlags", "adverseMedia", "financialSignals"}}
    \cup {Edit("bad", "compliance", "overallComplianceRisk", 0)}
    \cup {Edit("del", "item", "mitigation", i) : i \in 1..Len(BaseObj.riskMatrix)}
    \cup {Edit("bad", "item", k, i) : k \in {"riskLevel", "category"}, i \in 1..Len(BaseObj.riskMatrix)}

\* one defect applied to a dict
EditDict(e, r) ==
    IF e.key \notin DOMAIN r THEN r
    ELSE IF e.op = "del" THEN Without(r, e.key)
    ELSE [r EXCEPT ![e.key] = BadEnum]

Apply(e, o) ==
    IF e.at = "top" THEN EditDict(e, o)
    ELSE IF e.at = "item"
    THEN IF "riskMatrix" \in DOMAIN o /\ e.idx <= Len(o.riskMatrix)
         THEN [o EXCEPT !.riskMatrix[e.idx] = EditDict(e, @)]
         ELSE o
    ELSE IF e.at \in DOMAIN o THEN [o EXCEPT ![e.at] = EditDict(e, @)]
    ELSE o

RECURSIVE ObjectsUpTo(_)
ObjectsUpTo(n) ==
    IF n = 0 THEN {BaseObj}
    ELSE LET P == ObjectsUpTo(n - 1)
         IN  P \cup {Apply(e, o) : e \in Edits, o \in P}

Objects == ObjectsUpTo(MaxEdits)

JObject(o) == [type |-> "object", obj |-> o]

\* a JSON value that is not an object (json.loads returns a list)
JArray == [type |-> "array"]

\* what a text without a value chunk denotes
NoDoc == [type |-> "none"]

Values == {JObject(o) : o \in Objects} \cup {JArray}
----------------------------------------------------------------------------
(* Texts.  A text is a sequence of chunks:                                 *)
(*   "ws"    a whitespace character                                        *)
(*   "val"   the text of one well-formed JSON value                        *)
(*   "valc"  the text of one JSON value with a raw control character       *)
(*           inside a string (well-formed only for a non-strict decoder)   *)
(*   "fence" a markdown fence line                                         *)
(*   "junk"  any other characters (prose, a truncated value)               *)
(* and doc is the JSON value its value chunks denote.                      *)

Pad(n) == [i \in 1..n |-> "ws"]

Fenced(v) == <<"fence", "ws", v, "ws", "fence">>

Cores ==
    {<<>>, <<"val">>, <<"valc">>, <<"junk">>, Fenced("val"),
     <<"val", "junk">>, <<"junk", "val">>}

Shapes == {Pad(l) \o c \o Pad(r) : c \in Cores, l \in 0..MaxPad, r \in 0..MaxPad}

Text(toks, doc) == [none |-> FALSE, toks |-> toks, doc |-> doc]

\* message.content is None
NoContent == [none |-> TRUE, toks |-> <<>>, doc |-> NoDoc]

EmptyText == Text(<<>>, NoDoc)

\* OrEmpty without the `or ""`
M_OrEmpty(c) == c

\* (x or ""): None and "" both give ""                   engine.py:216, 260
OrEmpty(c) == IF c.none \/ c.toks = <<>> THEN EmptyText ELSE c

RECURSIVE LStrip(_)
LStrip(s) == IF s # <<>> /\ Head(s) = "ws" THEN LStrip(Tail(s)) ELSE s

RECURSIVE RStrip(_)
RStrip(s) ==
    IF s # <<>> /\ s[Len(s)] = "ws" THEN RStrip(SubSeq(s, 1, Len(s) - 1)) ELSE s

\* str.strip()                                           engine.py:216, 260
Strip(t) == [t EXCEPT !.toks = RStrip(LStrip(@))]

----------------------------------------------------------------------------
(* json.JSONDecoder.decode: skip whitespace, scan one value, skip          *)
(* whitespace, and require the end of the text.                            *)

JSONDecodeError(msg, t, pos) ==
    [cls |-> "JSONDecodeError", msg |-> msg, doc |-> t, pos |-> pos]

Parsed(v) == [ok |-> TRUE, value |-> v]

Failed(e) == [ok |-> FALSE, err |-> e]

\* index of the first chunk at or after i that is not whitespace
RECURSIVE SkipWs(_, _)
SkipWs(s, i) == IF i <= Len(s) /\ s[i] = "ws" THEN SkipWs(s, i + 1) ELSE i

Decode(t, strict) ==
    LET s == t.toks
        i == SkipWs(s, 1)
    IN  IF i > Len(s) THEN Failed(JSONDecodeError("Expecting value", t, i - 1))
        ELSE IF s[i] = "val" \/ (s[i] = "valc" /\ ~strict)
        THEN LET j == SkipWs(s, i + 1)
             IN  IF j > Len(s) THEN Parsed(t.doc)
                 ELSE Failed(JSONDecodeError("Extra data", t, j - 1))
        ELSE IF s[i] = "valc"
        THEN Failed(JSONDecodeError("Invalid control character at", t, i - 1))
        ELSE Failed(JSONDecodeError("Expecting value", t, i - 1))

\* json.loads(s)                                         engine.py:223, 261
StrictParse(t) == Decode(t, TRUE)

\* TolerantParse that ignores markdown fences
M_TolerantParse(t) ==
    Decode([t EXCEPT !.toks = SelectSeq(@, LAMBDA x : x # "fence")], FALSE)

\* json.JSONDecoder(strict=False).decode(s)              engine.py:229-230
TolerantParse(t) == Decode(t, FALSE)

\* the response texts the completion endpoint may return
DocsOf(s) ==
    IF TolerantParse(Text(s, NoDoc)).ok THEN Values
    ELSE IF \E i \in 1..Len(s) : s[i] \in {"val", "valc"} THEN {JObject(BaseObj)}
    ELSE {NoDoc}

Texts == UNION {{Text(s, d) : d \in DocsOf(s)} : s \in Shapes}

\* Documents that match the schema (engine.py:13-55) and differ from the
\* well-formed document in their values: other members of the closed sets,
\* lists in another order, with repeated or empty members, or empty, and
\* strings that are null, empty or padded with spaces.
Summaries ==
    {<<>>, <<"- one", "- two">>, <<"- two", "- one">>, <<"- one", "", "- one">>}

Matrices ==
    {<<>>,
     <<BaseItem("Liability", "High"), BaseItem("HSE", "Unknown")>>,
     <<BaseItem("HSE", "Unknown"), BaseItem("Liability", "High")>>,
     <<BaseItem("Legal", "Low"), BaseItem("Legal", "Low")>>,
     <<[BaseItem("Payment", "Medium") EXCEPT !.mitigation = None],
       BaseItem("Termination", "High")>>}

ValidObjects ==
    {[BaseObj EXCEPT !.overallRisk = r,
                     !.executiveSummary = es,
                     !.riskMatrix = rm,
                     !.keyCommercials.value = kv,
                     !.scope.deliverables = dl] :
        r \in RiskLevel, es \in Summaries, rm \in Matrices,
        kv \in {None, "", " USD 100,000 "},
        dl \in {<<>>, <<"goods", "services">>, <<"services", "goods">>}}

\* well-formed JSON texts of those documents
ValidContents ==
    {Text(Pad(l) \o <<"val">> \o Pad(r), JObject(o)) :
        l \in 0..MaxPad, r \in 0..MaxPad, o \in ValidObjects}

Contents == Texts \cup {NoContent}
----------------------------------------------------------------------------
(* pydantic models: engine.py lines 19-55.  A model validates all of its   *)
(* fields and raises one ValidationError listing every failing field: its  *)
(* location inside that model, the kind of failure and the value given.    *)
(* A field typed Optional[str] with no default is optional under pydantic  *)
(* v1 (default None) and required under pydantic v2; the repository pins   *)
(* neither, so the version is part of the environment.                     *)

PydanticVersions == {"v1", "v2"}

Field(name, kind) == [name |-> name, kind |-> kind]

KeyCommercialsFields ==
    {Field(n, "optional_str") :
        n \in {"value", "duration", "contractType", "pricingModel", "renewalTerms"}}

RiskMatrixItemFields ==
    {Field("category", "category"), Field("riskLevel", "risk"),
     Field("description", "str"), Field("mitigation", "optional_str")}

ScopeInfoFields ==
    {Field("pricingModel", "optional_str"), Field("paymentTerms", "optional_str"),
     Field("deliverables", "list")}

ComplianceInfoFields ==
    {Field("summary", "str"), Field("overallComplianceRisk", "risk"),
     Field("sanctionsFlags", "list"), Field("adverseMedia", "list"),
     Field("financialSignals", "list")}

FieldError(loc, type, given) == [loc |-> loc, type |-> type, given |-> given]

ValidationError(model, errs) ==
    [cls |-> "ValidationError", model |-> model, errs |-> errs]

KeyError(k) == [cls |-> "KeyError", key |-> k]

\* subscripting or unpacking a value that is not a dict
TypeError == [cls |-> "TypeError"]

\* whether an absent field of this kind is an error
RequiredField(f, ver) == f.kind # "optional_str" \/ ver = "v2"

\* the errors of one field of a model built from dict d
FieldErrors(f, d, ver) ==
    IF f.name \notin DOMAIN d
    THEN IF RequiredField(f, ver) THEN {FieldError(f.name, "missing", None)} ELSE {}
    ELSE IF f.kind = "risk" /\ d[f.name] \notin RiskLevel
    THEN {FieldError(f.name, "literal", d[f.name])}
    ELSE IF f.kind = "category" /\ d[f.name] \notin Category
    THEN {FieldError(f.name, "literal", d[f.name])}
    ELSE {}

\* Model(**d)
Construct(model, fields, d, ver) ==
    LET errs == UNION {FieldErrors(f, d, ver) : f \in fields}
    IN  IF errs # {} THEN Failed(ValidationError(model, errs))
        ELSE Parsed([n \in {f.name : f \in fields} |->
                        IF n \in DOMAIN d THEN d[n] ELSE None])

NoResult == [type |-> "none"]

\* AnalysisResult that tidies the summary by dropping empty bullets
M_AnalysisResult(kwargs) ==
    IF kwargs.overallRisk \notin RiskLevel
    THEN Failed(ValidationError("AnalysisResult",
                    {FieldError("overallRisk", "literal", kwargs.overallRisk)}))
    ELSE Parsed([kwargs EXCEPT !.executiveSummary =
                                SelectSeq(@, LAMBDA b : b # "")])

\* AnalysisResult(...) over already-built arguments      engine.py:264-272
AnalysisResult(kwargs) ==
    IF kwargs.overallRisk \notin RiskLevel
    THEN Failed(ValidationError("AnalysisResult",
                    {FieldError("overallRisk", "literal", kwargs.overallRisk)}))
    ELSE Parsed(kwargs)

\* The keyword arguments are evaluated top to bottom before the
\* constructor runs; the first one that raises ends the call.
Materialize(v, ver) ==
    IF v.type # "object" THEN Failed(TypeError)
    ELSE
    LET d  == v.obj
        kc == Construct("KeyCommercials", KeyCommercialsFields, d.keyCommercials, ver)
        es == Get(d, "executiveSummary", <<>>)
        rm == Get(d, "riskMatrix", <<>>)
        it == [i \in 1..Len(rm) |->
                  Construct("RiskMatrixItem", RiskMatrixItemFields, rm[i], ver)]
        bad == {i \in 1..Len(rm) : ~it[i].ok}
        sc == Construct("ScopeInfo", ScopeInfoFields, d.scope, ver)
        co == Construct("ComplianceInfo", ComplianceInfoFields, d.compliance, ver)
    IN  IF "overallRisk" \notin DOMAIN d THEN Failed(KeyError("overallRisk"))
        ELSE IF "keyCommercials" \notin DOMAIN d THEN Failed(KeyError("keyCommercials"))
        ELSE IF ~kc.ok THEN kc
        ELSE IF bad # {} THEN it[CHOOSE i \in bad : \A j \in bad : i <= j]
        ELSE IF "scope" \notin DOMAIN d THEN Failed(KeyError("scope"))
        ELSE IF ~sc.ok THEN sc
        ELSE IF "compliance" \notin DOMAIN d THEN Failed(KeyError("compliance"))
        ELSE IF ~co.ok THEN co
        ELSE IF "detailedAnalysis" \notin DOMAIN d
        THEN Failed(KeyError("detailedAnalysis"))
        ELSE AnalysisResult(
                [overallRisk |-> d.overallRisk,
                 keyCommercials |-> kc.value,
                 executiveSummary |-> es,
                 riskMatrix |-> [i \in 1..Len(rm) |-> it[i].value],
                 scope |-> sc.value,
                 compliance |-> co.value,
                 detailedAnalysis |-> d.detailedAnalysis])
----------------------------------------------------------------------------
(* The call: engine.py lines 135-274 *)

NoError == [cls |-> "none"]

NoResp == [status |-> "none"]

Unbound == [unbound |-> TRUE]

\* the ways a completion call can fail (spec section 4.3)
TransportKinds == {"timeout", "auth", "rate_limit", "provider"}

\* what client.chat.completions.create raises
APIError(kind) == [cls |-> "APIError", kind |-> kind]

\* get_openai_client without OPENAI_API_KEY              engine.py:121-128
RuntimeError == [cls |-> "RuntimeError"]

\* None has no attribute strip
AttributeError == [cls |-> "AttributeError"]

Returned(c) == [status |-> "ok", content |-> c]

Raised(kind) == [status |-> "failed", kind |-> kind]

AnalysisCall == [kind |-> "analysis"]

\* the repair prompt embeds `content`                    engine.py:235-258
RepairCall(t) == [kind |-> "repair", embeds |-> t]

Attempt(tier, of, ok) == [tier |-> tier, of |-> of, ok |-> ok]

\* The arguments of a call.  contract_text is a sequence of chunks, "ws" a
\* whitespace character and "text" any other characters; party_role and
\* deal_context are None, the empty string or a value.
ContractTexts == {<<>>, <<"ws">>, <<"text">>, <<"ws", "text", "ws">>}

PartyRoles == {None, "", "buyer", "vendor"}

DealContexts == {None, "", "Renewal of the 2024 frame agreement"}

Args(text, role, context) ==
    [contract_text |-> text, party_role |-> role, deal_context |-> context]

ArgSets ==
    {Args(t, r, c) : t \in ContractTexts, r \in PartyRoles, c \in DealContexts}

\* OrDefault replacing None only
M_OrDefault(x, default) == IF x = None THEN default ELSE x

\* x or default: None and "" are both falsy             engine.py:147-148
OrDefault(x, default) == IF x = None \/ x = "" THEN default ELSE x

\* a placeholder that lists the members of a closed set
OneOf(members, sep) == [members |-> members, sep |-> sep]

\* the JSON template of the user prompt                 engine.py:161-196
Template ==
    [overallRisk |-> OneOf(<<"High", "Medium", "Low", "Unknown">>, " | "),
     keyCommercials |-> [value |-> "string or null",
                         duration |-> "string or null",
                         contractType |-> "string or null",
                         pricingModel |-> "string or null",
                         renewalTerms |-> "string or null"],
     executiveSummary |-> <<"string", "string", "string">>,
     riskMatrix |->
        <<[category |-> OneOf(<<"Liability", "HSE", "Payment", "Termination",
                                "Legal">>, " | "),
           riskLevel |-> OneOf(<<"High", "Medium", "Low", "Unknown">>, " | "),
           description |-> "string",
           mitigation |-> "string or null"]>>,
     scope |-> [pricingModel |-> "string or null",
                paymentTerms |-> "string or null",
                deliverables |-> <<"string", "string">>],
     compliance |->
        [summary |-> "string",
         overallComplianceRisk |->
            OneOf(<<"High", "Medium", "Low", "Unknown">>, " | "),
         sanctionsFlags |-> <<"string", "string">>,
         adverseMedia |-> <<"string", "string">>,
         financialSignals |-> <<"string", "string">>],
     detailedAnalysis |-> "Markdown string following the required headings"]

\* UserPrompt whose template names the item's level "level"
M_UserPrompt(a) ==
    [role_text |-> OrDefault(a.party_role, "unspecified"),
     context_text |-> OrDefault(a.deal_context, "No additional context provided."),
     contract_text |-> a.contract_text,
     template |->
        [Template EXCEPT !.riskMatrix =
            <<[level |-> Template.riskMatrix[1].riskLevel,
               category |-> Template.riskMatrix[1].category,
               description |-> "string",
               mitigation |-> "string or null"]>>]]

\* the f-string of lines 150-203: the three interpolations and the template
UserPrompt(a) ==
    [role_text |-> OrDefault(a.party_role, "unspecified"),
     context_text |-> OrDefault(a.deal_context, "No additional context provided."),
     contract_text |-> a.contract_text,
     template |-> Template]

\* the locals of analyze_contract before its first statement
Entered ==
    /\ pc = "idle"
    /\ calls = <<>>
    /\ resp1 = NoResp
    /\ resp2 = NoResp
    /\ content = Unbound
    /\ repaired = Unbound
    /\ parses = <<>>
    /\ data = NoDoc
    /\ result = NoResult
    /\ error = NoError
    /\ user_prompt = Unbound

\* st.session_state after init_session_state      app_streamlit.py:295-300
InitialSession ==
    [license_valid |-> FALSE, license_message |-> "License not validated.",
     license_key |-> <<>>, license_owner |-> None]

NoPost == [made |-> FALSE]

\* no other request, no Streamlit session in use
Standalone ==
    /\ cur = 1
    /\ reqs = <<>>
    /\ gumroad = "none"
    /\ session = InitialSession
    /\ posted = NoPost
    /\ ui = "none"

\* one call, as the Streamlit page makes it         app_streamlit.py:721-725
Init ==
    /\ pydantic \in PydanticVersions
    /\ apiKey \in BOOLEAN
    /\ args = Args(<<"text">>, "buyer", None)
    /\ Entered
    /\ Standalone

\* an exception leaves analyze_contract
Raise(e) ==
    /\ pc' = "raised"
    /\ error' = e
    /\ result' = NoResult

\* Finish with a failed materialisation replaced by an empty result
M_Finish(v) ==
    LET m == Materialize(v, pydantic)
    IN  /\ data' = v
        /\ pc' = "returned"
        /\ result' = IF m.ok THEN m.value ELSE [overallRisk |-> "Unknown"]
        /\ error' = NoError

\* map the decoded value into the models and return     engine.py:264-274
Finish(v) ==
    LET m == Materialize(v, pydantic)
    IN  /\ data' = v
        /\ IF m.ok
           THEN pc' = "returned" /\ result' = m.value /\ error' = NoError
           ELSE Raise(m.err)

\* lines 145-214: get the client, build the prompt, issue the first call
Begin ==
    /\ pc = "idle"
    /\ IF apiKey
       THEN /\ pc' = "call1"
            /\ calls' = Append(calls, AnalysisCall)
            /\ user_prompt' = UserPrompt(args)
            /\ UNCHANGED <<error, result>>
       ELSE /\ Raise(RuntimeError)
            /\ UNCHANGED <<calls, user_prompt>>
    /\ UNCHANGED <<env, threads, app, args, resp1, resp2, content, repaired,
                   parses, data>>

\* FirstFailure with the call issued again instead of raising
M_FirstFailure(kind) ==
    /\ pc = "call1"
    /\ resp1' = Raised(kind)
    /\ calls' = Append(calls, AnalysisCall)
    /\ UNCHANGED <<env, threads, app, args, user_prompt>>
    /\ UNCHANGED <<pc, resp2, content, repaired, parses, data,
                   result, error>>

\* line 205: the first call raises; nothing catches it
FirstFailure(kind) ==
    /\ pc = "call1"
    /\ resp1' = Raised(kind)
    /\ Raise(APIError(kind))
    /\ UNCHANGED <<env, threads, app, args, user_prompt>>
    /\ UNCHANGED <<calls, resp2, content, repaired, parses, data>>

\* DecodeFirst with the tolerant tier's success discarded
M_DecodeFirst(t) ==
    LET s == StrictParse(t)
        l == TolerantParse(t)
    IN  IF s.ok
        THEN [ok |-> TRUE, value |-> s.value,
              parses |-> <<Attempt("strict", "content", TRUE)>>]
        ELSE [ok |-> FALSE, value |-> NoDoc,
              parses |-> <<Attempt("strict", "content", FALSE),
                           Attempt("tolerant", "content", l.ok)>>]

\* lines 221-231: strict parse, then tolerant parse on JSONDecodeError
DecodeFirst(t) ==
    LET s == StrictParse(t)
        l == TolerantParse(t)
    IN  IF s.ok
        THEN [ok |-> TRUE, value |-> s.value,
              parses |-> <<Attempt("strict", "content", TRUE)>>]
        ELSE [ok |-> l.ok, value |-> IF l.ok THEN l.value ELSE NoDoc,
              parses |-> <<Attempt("strict", "content", FALSE),
                           Attempt("tolerant", "content", l.ok)>>]

\* FirstResponse that reuses the document another request has decoded
M_FirstResponse(c) ==
    /\ pc = "call1"
    /\ resp1' = Returned(c)
    /\ LET x == OrEmpty(c)
           t == Strip(x)
           d == DecodeFirst(t)
           cached == {j \in DOMAIN reqs : reqs[j].data # NoDoc}
       IN  /\ content' = t
           /\ parses' = parses \o d.parses
           /\ IF cached # {}
              THEN /\ Finish(reqs[CHOOSE j \in cached : TRUE].data)
                   /\ UNCHANGED calls
              ELSE IF d.ok
              THEN /\ Finish(d.value)
                   /\ UNCHANGED calls
              ELSE /\ calls' = Append(calls, RepairCall(t))
                   /\ pc' = "call2"
                   /\ UNCHANGED <<data, result, error>>
    /\ UNCHANGED <<env, threads, app, args, user_prompt>>
    /\ UNCHANGED <<resp2, repaired>>

\* lines 216-272 when the first call returns message.content = c
FirstResponse(c) ==
    /\ pc = "call1"
    /\ resp1' = Returned(c)
    /\ LET x == OrEmpty(c)
       IN  IF x.none
           THEN /\ Raise(AttributeError)
                /\ UNCHANGED <<content, parses, calls, data>>
           ELSE LET t == Strip(x)
                    d == DecodeFirst(t)
                IN  /\ content' = t
                    /\ parses' = parses \o d.parses
                    /\ IF d.ok
                       THEN /\ Finish(d.value)
                            /\ UNCHANGED calls
                       ELSE /\ calls' = Append(calls, RepairCall(t))
                            /\ pc' = "call2"
                            /\ UNCHANGED <<data, result, error>>
    /\ UNCHANGED <<env, threads, app, args, user_prompt>>
    /\ UNCHANGED <<resp2, repaired>>

\* RepairFailure with the repair call issued once more before giving up
M_RepairFailure(kind) ==
    /\ pc = "call2"
    /\ resp2' = Raised(kind)
    /\ IF resp2 = NoResp
       THEN /\ calls' = Append(calls, RepairCall(content))
            /\ UNCHANGED <<pc, result, error>>
       ELSE /\ Raise(APIError(kind))
            /\ UNCHANGED calls
    /\ UNCHANGED <<env, threads, app, args, user_prompt>>
    /\ UNCHANGED <<resp1, content, repaired, parses, data>>

\* line 249: the repair call raises inside the except block; nothing catches it
RepairFailure(kind) ==
    /\ pc = "call2"
    /\ resp2' = Raised(kind)
    /\ Raise(APIError(kind))
    /\ UNCHANGED <<env, threads, app, args, user_prompt>>
    /\ UNCHANGED <<calls, resp1, content, repaired, parses, data>>

\* RepairInput handing over the first response again
M_RepairInput(c, r) == c

\* the text handed to json.loads at line 261
RepairInput(c, r) == r

\* RepairResponse with the repair call issued again when its output does
\* not parse
M_RepairResponse(c) ==
    /\ pc = "call2"
    /\ resp2' = Returned(c)
    /\ LET t == Strip(OrEmpty(c))
           s == StrictParse(t)
       IN  /\ repaired' = t
           /\ parses' = Append(parses, Attempt("strict", "repaired", s.ok))
           /\ IF s.ok
              THEN Finish(s.value) /\ UNCHANGED calls
              ELSE /\ calls' = Append(calls, RepairCall(t))
                   /\ UNCHANGED <<pc, data, result, error>>
    /\ UNCHANGED <<env, threads, app, args, user_prompt>>
    /\ UNCHANGED <<resp1, content>>

\* RepairResponse with the repair output decoded by both tiers, as the first
\* response is
M_RepairResponseLenient(c) ==
    /\ pc = "call2"
    /\ resp2' = Returned(c)
    /\ LET x == OrEmpty(c)
       IN  IF x.none
           THEN /\ Raise(AttributeError)
                /\ UNCHANGED <<repaired, parses, data>>
           ELSE LET t == Strip(x)
                    s == StrictParse(t)
                    l == TolerantParse(t)
                IN  /\ repaired' = t
                    /\ IF s.ok
                       THEN /\ parses' = Append(parses,
                                           Attempt("strict", "repaired", TRUE))
                            /\ Finish(s.value)
                       ELSE /\ parses' = parses \o
                                   <<Attempt("strict", "repaired", FALSE),
                                     Attempt("tolerant", "repaired", l.ok)>>
                            /\ IF l.ok
                               THEN Finish(l.value)
                               ELSE Raise(l.err) /\ UNCHANGED data
    /\ UNCHANGED <<env, threads, app, args, user_prompt>>
    /\ UNCHANGED <<calls, resp1, content>>

\* lines 260-272 when the repair call returns message.content = c
RepairResponse(c) ==
    /\ pc = "call2"
    /\ resp2' = Returned(c)
    /\ LET x == OrEmpty(c)
       IN  IF x.none
           THEN /\ Raise(AttributeError)
                /\ UNCHANGED <<repaired, parses, data>>
           ELSE LET t == Strip(x)
                    s == StrictParse(RepairInput(content, t))
                IN  /\ repaired' = t
                    /\ parses' = Append(parses, Attempt("strict", "repaired", s.ok))
                    /\ IF s.ok
                       THEN Finish(s.value)
                       ELSE Raise(s.err) /\ UNCHANGED data
    /\ UNCHANGED <<env, threads, app, args, user_prompt>>
    /\ UNCHANGED <<calls, resp1, content>>

Next ==
    \/ Begin
    \/ pc = "call1" /\ \E k \in TransportKinds : FirstFailure(k)
    \/ pc = "call1" /\ \E c \in Contents : FirstResponse(c)
    \/ pc = "call2" /\ \E k \in TransportKinds : RepairFailure(k)
    \/ pc = "call2" /\ \E c \in Contents : RepairResponse(c)

Spec == Init /\ [][Next]_vars

\* the call when the first response is a well-formed document
NextRoundTrip ==
    \/ Begin
    \/ pc = "call1" /\ \E c \in ValidContents : FirstResponse(c)

SpecRoundTrip == Init /\ [][NextRoundTrip]_vars

\* one call with any arguments, answered by the well-formed document
InitPrompt ==
    /\ pydantic \in PydanticVersions
    /\ apiKey \in BOOLEAN
    /\ args \in ArgSets
    /\ Entered
    /\ Standalone

NextPrompt ==
    \/ Begin
    \/ pc = "call1" /\ \E k \in TransportKinds : FirstFailure(k)
    \/ pc = "call1" /\ FirstResponse(Text(<<"val">>, JObject(BaseObj)))

SpecPrompt == InitPrompt /\ [][NextPrompt]_vars
----------------------------------------------------------------------------
(* The Streamlit page: src/app_streamlit.py.  Every click reruns the       *)
(* script; the actions are the two buttons, and a run of analyze_contract  *)
(* started by Run Analysis goes on with the actions of the call.           *)

GumroadConfigs == {"none", "id", "permalink", "both"}

\* bool(GUMROAD_PRODUCT_ID or GUMROAD_PRODUCT_PERMALINK)  app_streamlit.py:21-22
gumroad_license_enforced == gumroad # "none"

\* the text typed into the license field: chunks as in a contract text
LicenseInputs == {<<>>, <<"ws">>, <<"ws", "key-A", "ws">>, <<"key-B">>}

EmptyDict == <<>>

\* JSON null
JNull == [null |-> TRUE]

\* dict.get(k) is truthy; the flags of a reply are JSON booleans
Truthy(d, k) == k \in DOMAIN d /\ d[k] = TRUE

PurchaseFlags ==
    {"refunded", "chargebacked", "disputed", "subscription_cancelled",
     "subscription_ended"}

Emails == {"", "owner@example.com"}

\* a purchase object: at most one flag set; either every flag with its value
\* and an email or none, or only the flag that is set
Purchases ==
    {[k \in PurchaseFlags |-> k \in set] @@ mail :
        set \in {{}} \cup {{f} : f \in PurchaseFlags},
        mail \in {EmptyDict} \cup {[email |-> e] : e \in Emails}}
    \cup {[k \in {f} |-> TRUE] : f \in PurchaseFlags}
    \cup {EmptyDict}

\* the JSON objects the license server may answer with
ReplyBodies ==
    {EmptyDict, [success |-> FALSE], [success |-> TRUE],
     [success |-> FALSE,
      message |-> "That license does not exist for the provided product."],
     [success |-> TRUE, purchase |-> JNull]}
    \cup {[success |-> TRUE, purchase |-> p] : p \in Purchases}

\* what requests.post and resp.json() lead to: an exception of the request,
\* a body that is not JSON, JSON that is not an object, or an object
ServerReplies ==
    {[kind |-> "exception"], [kind |-> "not_json"], [kind |-> "non_object"]}
    \cup {[kind |-> "object", body |-> b] : b \in ReplyBodies}

\* the request to the license server and what came back  app_streamlit.py:44-59
Post(key, reply) ==
    [made |-> TRUE, license_key |-> key,
     product |-> IF gumroad \in {"id", "both"} THEN "product_id"
                 ELSE "product_permalink",
     reply |-> reply]

Verdict(ok, msg, meta, post) ==
    [raised |-> FALSE, ok |-> ok, msg |-> msg, meta |-> meta, post |-> post]

\* data.get("purchase", {}) or {}                      app_streamlit.py:67
PurchaseOf(d) ==
    IF "purchase" \notin DOMAIN d \/ DOMAIN d.purchase = DOMAIN JNull
    THEN EmptyDict ELSE d.purchase

\* lines 69-71
Refunded(purchase) ==
    \/ Truthy(purchase, "refunded")
    \/ Truthy(purchase, "chargebacked")
    \/ Truthy(purchase, "disputed")

\* Lapsed that looks at the cancelled flag only
M_Lapsed(purchase) == Truthy(purchase, "subscription_cancelled")

\* lines 74-76
Lapsed(purchase) ==
    \/ Truthy(purchase, "subscription_cancelled")
    \/ Truthy(purchase, "subscription_ended")

\* verify_license                                     app_streamlit.py:25-79
verify_license(license_key_input, reply) ==
    LET license_key == RStrip(LStrip(license_key_input))
        post == Post(license_key, reply)
    IN  IF ~gumroad_license_enforced
        THEN Verdict(TRUE,
                 "License check is in development mode (no Gumroad product configured).",
                 EmptyDict, NoPost)
        ELSE IF license_key = <<>>
        THEN Verdict(FALSE, "Please enter a license key.", EmptyDict, NoPost)
        ELSE IF reply.kind = "exception"
        THEN Verdict(FALSE, "Error contacting license server: ConnectionError",
                     EmptyDict, post)
        ELSE IF reply.kind = "not_json"
        THEN Verdict(FALSE, "Error contacting license server: JSONDecodeError",
                     EmptyDict, post)
        ELSE IF reply.kind = "non_object"
        THEN [raised |-> TRUE, error |-> AttributeError, post |-> post]
        ELSE LET d == reply.body
                 purchase == PurchaseOf(d)
             IN  IF ~Truthy(d, "success")
                 THEN Verdict(FALSE,
                          Get(d, "message", "License verification failed."),
                          d, post)
                 ELSE IF Refunded(purchase)
                 THEN Verdict(FALSE,
                          "This license has been refunded or chargebacked.",
                          d, post)
                 ELSE IF Lapsed(purchase)
                 THEN Verdict(FALSE,
                          "This subscription has been cancelled or ended.",
                          d, post)
                 ELSE Verdict(TRUE, "License verified successfully.", d, post)

\* lines 322-327: the owner's email, when the verdict has one
OwnerOf(v) ==
    IF v.ok /\ DOMAIN v.meta # {}
    THEN LET purchase == PurchaseOf(v.meta)
             owner_email == Get(purchase, "email", "")
         IN  IF owner_email # "" THEN owner_email ELSE None
    ELSE None

\* the script is not inside analyze_contract
AtRest == pc \notin {"call1", "call2"}

\* nothing of an earlier run's responses is left
Cleared ==
    /\ resp1' = NoResp
    /\ resp2' = NoResp
    /\ content' = Unbound
    /\ repaired' = Unbound
    /\ parses' = <<>>
    /\ data' = NoDoc
    /\ result' = NoResult
    /\ error' = NoError

\* a rerun starts without the previous run's analysis
Rerun ==
    /\ pc' = "idle"
    /\ calls' = <<>>
    /\ user_prompt' = Unbound
    /\ Cleared

\* the Validate License button                      app_streamlit.py:316-327
ValidateClick(license_key_input, reply) ==
    /\ AtRest
    /\ LET v == verify_license(license_key_input, reply)
       IN  /\ posted' = v.post
           /\ IF v.raised
              THEN UNCHANGED session
              ELSE session' = [license_valid |-> v.ok,
                               license_message |-> v.msg,
                               license_key |-> license_key_input,
                               license_owner |-> OwnerOf(v)]
    /\ ui' = "none"
    /\ Rerun
    /\ UNCHANGED <<env, threads, args>>

\* RunOutcome without the license check
M_RunOutcome(contract_text) ==
    IF ~apiKey THEN "no_api_key"
    ELSE IF RStrip(LStrip(contract_text)) = <<>> THEN "no_contract_text"
    ELSE "analysis"

\* lines 707-718: what a Run Analysis click leads to
RunOutcome(contract_text) ==
    IF ~apiKey THEN "no_api_key"
    ELSE IF ~session.license_valid /\ gumroad_license_enforced
    THEN "license_required"
    ELSE IF RStrip(LStrip(contract_text)) = <<>> THEN "no_contract_text"
    ELSE "analysis"

\* the Run Analysis button: lines 707-725, and lines 145-214 of the engine
\* when the run gets as far as analyze_contract
RunClick(contract_text, party_role) ==
    /\ AtRest
    /\ ui' = RunOutcome(contract_text)
    /\ IF ui' = "analysis"
       THEN /\ args' = Args(contract_text, party_role, None)
            /\ Cleared
            /\ pc' = "call1"
            /\ calls' = <<AnalysisCall>>
            /\ user_prompt' = UserPrompt(args')
       ELSE Rerun /\ UNCHANGED args
    /\ UNCHANGED <<env, threads, session, posted>>

\* the responses a run started from the page may get
PageContents ==
    {Text(<<"val">>, JObject(BaseObj)), Text(<<"junk">>, NoDoc), NoContent}

InitPage ==
    /\ pydantic \in PydanticVersions
    /\ apiKey \in BOOLEAN
    /\ gumroad \in GumroadConfigs
    /\ args = Args(<<>>, None, None)
    /\ Entered
    /\ cur = 1
    /\ reqs = <<>>
    /\ session = InitialSession
    /\ posted = NoPost
    /\ ui = "none"

NextPage ==
    \/ \E k \in LicenseInputs, r \in ServerReplies : ValidateClick(k, r)
    \/ \E t \in ContractTexts, r \in {"buyer", "vendor"} : RunClick(t, r)
    \/ pc = "call1" /\ \E k \in TransportKinds : FirstFailure(k)
    \/ pc = "call1" /\ \E c \in PageContents : FirstResponse(c)
    \/ pc = "call2" /\ \E k \in TransportKinds : RepairFailure(k)
    \/ pc = "call2" /\ \E c \in PageContents : RepairResponse(c)

SpecPage == InitPage /\ [][NextPage]_vars
----------------------------------------------------------------------------
(* The web service: src/api.py.  The endpoint is a plain function, so each *)
(* request runs analyze_contract in a thread of its own.  One thread runs  *)
(* at a time; its frame is in the variables of the call, and the frames of *)
(* the others are parked in reqs.  A switch of threads can come between    *)
(* any two steps of the running call.                                      *)

Requests == 1..MaxRequests

\* the frame of the running call: its arguments and locals
Frame ==
    [pc |-> pc, calls |-> calls, resp1 |-> resp1, resp2 |-> resp2,
     content |-> content, repaired |-> repaired, parses |-> parses,
     data |-> data, result |-> result, error |-> error, args |-> args,
     user_prompt |-> user_prompt]

\* a frame on entry to analyze_contract                  engine.py:135-139
NewFrame(a) ==
    [pc |-> "idle", calls |-> <<>>, resp1 |-> NoResp, resp2 |-> NoResp,
     content |-> Unbound, repaired |-> Unbound, parses |-> <<>>,
     data |-> NoDoc, result |-> NoResult, error |-> NoError, args |-> a,
     user_prompt |-> Unbound]

\* the body of request i                                 api.py:41-47
RequestArgs(i) ==
    Args(Pad(i - 1) \o <<"text">>,
         IF i % 2 = 1 THEN "buyer" ELSE "",
         IF i % 2 = 1 THEN None ELSE "Renewal of the 2024 frame agreement")

\* the interpreter parks the running thread and resumes request i
Switch(i) ==
    /\ i \in DOMAIN reqs
    /\ cur' = i
    /\ reqs' = [j \in (DOMAIN reqs \ {i}) \cup {cur} |->
                    IF j = cur THEN Frame ELSE reqs[j]]
    /\ pc' = reqs[i].pc
    /\ calls' = reqs[i].calls
    /\ resp1' = reqs[i].resp1
    /\ resp2' = reqs[i].resp2
    /\ content' = reqs[i].content
    /\ repaired' = reqs[i].repaired
    /\ parses' = reqs[i].parses
    /\ data' = reqs[i].data
    /\ result' = reqs[i].result
    /\ error' = reqs[i].error
    /\ args' = reqs[i].args
    /\ user_prompt' = reqs[i].user_prompt
    /\ UNCHANGED <<env, app>>

\* the responses a request may get
RequestContents ==
    {Text(<<"val">>, JObject(BaseObj)),
     Text(<<"val">>, JObject(Without(BaseObj, "scope"))),
     Text(<<"junk">>, NoDoc), NoContent}

InitRequests ==
    /\ pydantic \in PydanticVersions
    /\ apiKey \in BOOLEAN
    /\ args = RequestArgs(1)
    /\ Entered
    /\ cur = 1
    /\ reqs = [i \in Requests \ {1} |-> NewFrame(RequestArgs(i))]
    /\ gumroad = "none"
    /\ session = InitialSession
    /\ posted = NoPost
    /\ ui = "none"

NextRequests ==
    \/ \E i \in Requests : Switch(i)
    \/ Begin
    \/ pc = "call1" /\ \E k \in TransportKinds : FirstFailure(k)
    \/ pc = "call1" /\ \E c \in RequestContents : FirstResponse(c)
    \/ pc = "call2" /\ \E k \in TransportKinds : RepairFailure(k)
    \/ pc = "call2" /\ \E c \in RequestContents : RepairResponse(c)

SpecRequests == InitRequests /\ [][NextRequests]_vars
----------------------------------------------------------------------------
(* Properties *)

Terminal == pc \in {"returned", "raised"}

RepairCalls == Cardinality({i \in DOMAIN calls : calls[i].kind = "repair"})

\* the trimmed text of a response that came back
Trimmed(r) ==
    LET c == r.content
    IN  IF c.none THEN EmptyText ELSE Text(RStrip(LStrip(c.toks)), c.doc)

FailsBoth(t) == ~StrictParse(t).ok /\ ~TolerantParse(t).ok

\* C1: a first response that fails the strict and the tolerant parse leads
\* to exactly one RepairCall; no call ever issues a second one; and a repair
\* output that does not parse ends the call with a JSONDecodeError.
C1_OneRepairOnly ==
    /\ RepairCalls <= 1
    /\ (resp1.status = "ok" /\ FailsBoth(Trimmed(resp1))) => RepairCalls = 1
    /\ (resp2.status = "ok" /\ ~StrictParse(Trimmed(resp2)).ok)
          => /\ pc = "raised"
             /\ error.cls = "JSONDecodeError"
             /\ RepairCalls = 1
             /\ Len(calls) = 2

C1_Witness ==
    /\ resp1.status = "ok" /\ FailsBoth(Trimmed(resp1))
    /\ resp2.status = "ok" /\ ~StrictParse(Trimmed(resp2)).ok
    /\ pc = "raised" /\ error.cls = "JSONDecodeError"

\* C2: the decoder stops at the first tier that succeeds.  A strict success
\* runs neither the tolerant parse nor the RepairCall; a tolerant success
\* after a strict failure issues no RepairCall; either way the analysis ends
\* having made exactly one completion call.
C2_TerminalOnFirstSuccess ==
    /\ (resp1.status = "ok" /\ StrictParse(Trimmed(resp1)).ok)
          => /\ parses = <<Attempt("strict", "content", TRUE)>>
             /\ calls = <<AnalysisCall>>
             /\ Terminal
    /\ (resp1.status = "ok" /\ ~StrictParse(Trimmed(resp1)).ok
                            /\ TolerantParse(Trimmed(resp1)).ok)
          => /\ parses = <<Attempt("strict", "content", FALSE),
                           Attempt("tolerant", "content", TRUE)>>
             /\ calls = <<AnalysisCall>>
             /\ Terminal

C2_Witness ==
    /\ resp1.status = "ok"
    /\ ~StrictParse(Trimmed(resp1)).ok
    /\ TolerantParse(Trimmed(resp1)).ok
    /\ pc = "returned"
    /\ calls = <<AnalysisCall>>

\* C3: a transport failure of either completion call is not retried and
\* ends the call: after a failed first call there is one call in all, no
\* parse, no decoded value and no result; after a failed repair call there
\* are two calls in all and no result; the exception that leaves
\* analyze_contract is the transport failure itself.
C3_TransportFailureStops ==
    /\ resp1.status = "failed"
          => /\ pc = "raised"
             /\ error = APIError(resp1.kind)
             /\ calls = <<AnalysisCall>>
             /\ parses = <<>>
             /\ resp2 = NoResp
             /\ data = NoDoc
             /\ result = NoResult
    /\ resp2.status = "failed"
          => /\ pc = "raised"
             /\ error = APIError(resp2.kind)
             /\ Len(calls) = 2
             /\ RepairCalls = 1
             /\ \A i \in DOMAIN parses : parses[i].of = "content"
             /\ data = NoDoc
             /\ result = NoResult

C3_Witness ==
    /\ resp1.status = "ok"
    /\ resp2.status = "failed"
    /\ pc = "raised"
    /\ error.cls = "APIError"

\* C4: when the three tiers are exhausted the JSONDecodeError that leaves
\* the call is the one of the strict parse of the trimmed repair output: its
\* doc is that text (the local `repaired`), not the first response, and its
\* msg is that parse's failure reason.
C4_ErrorCarriesRepairText ==
    (pc = "raised" /\ error.cls = "JSONDecodeError")
        => /\ resp2.status = "ok"
           /\ FailsBoth(content)
           /\ error.doc = Trimmed(resp2)
           /\ error.doc = repaired
           /\ error.msg = StrictParse(Trimmed(resp2)).err.msg
           /\ error.pos = StrictParse(Trimmed(resp2)).err.pos

C4_Witness ==
    /\ pc = "raised"
    /\ error.cls = "JSONDecodeError"
    /\ error.doc = Trimmed(resp2)
    /\ error.doc # content
    /\ resp2.content # Trimmed(resp2)
\* a value was decoded and handed to the materialiser
Decoded == data # NoDoc

DecodedObject == Decoded /\ data.type = "object"

Path(root, idx, field, value) ==
    [root |-> root, idx |-> idx, field |-> field, value |-> value]

\* the enum-typed places of a decoded object that hold a value outside
\* their closed set; idx is the position in riskMatrix, 0 elsewhere
Offending(o) ==
    {Path("", 0, "overallRisk", o.overallRisk) : x \in
        {y \in {"overallRisk"} \cap DOMAIN o : o[y] \notin RiskLevel}}
    \cup
    {Path("compliance", 0, "overallComplianceRisk",
          o.compliance.overallComplianceRisk) : x \in
        {y \in {"compliance"} \cap DOMAIN o :
            /\ "overallComplianceRisk" \in DOMAIN o[y]
            /\ o[y].overallComplianceRisk \notin RiskLevel}}
    \cup
    UNION {{Path("riskMatrix", i, "riskLevel", o.riskMatrix[i].riskLevel) : i \in
              {j \in 1..Len(o[x]) : /\ "riskLevel" \in DOMAIN o[x][j]
                                    /\ o[x][j].riskLevel \notin RiskLevel}}
           \cup
           {Path("riskMatrix", i, "category", o.riskMatrix[i].category) : i \in
              {j \in 1..Len(o[x]) : /\ "category" \in DOMAIN o[x][j]
                                    /\ o[x][j].category \notin Category}}
           : x \in {"riskMatrix"} \cap DOMAIN o}

\* where in the document a model's fields live
RootOf(model) ==
    CASE model = "AnalysisResult" -> ""
      [] model = "KeyCommercials" -> "keyCommercials"
      [] model = "RiskMatrixItem" -> "riskMatrix"
      [] model = "ScopeInfo" -> "scope"
      [] model = "ComplianceInfo" -> "compliance"

\* whether an exception names place p and the value there.  A
\* ValidationError names the model that failed, the field inside it and the
\* value given; it carries no position in a list, and none is asked for here.
Names(e, p) ==
    /\ e.cls = "ValidationError"
    /\ RootOf(e.model) = p.root
    /\ \E x \in e.errs : x.loc = p.field /\ x.given = p.value

\* whether an exception reports top-level key k as missing: the KeyError of
\* data[k], or a ValidationError of AnalysisResult listing k
NamesMissing(e, k) ==
    \/ e.cls = "KeyError" /\ e.key = k
    \/ /\ e.cls = "ValidationError"
       /\ e.model = "AnalysisResult"
       /\ \E x \in e.errs : x.loc = k /\ x.type = "missing"

EnumsClosed(r) ==
    /\ r.overallRisk \in RiskLevel
    /\ r.compliance.overallComplianceRisk \in RiskLevel
    /\ \A i \in DOMAIN r.riskMatrix :
          /\ r.riskMatrix[i].riskLevel \in RiskLevel
          /\ r.riskMatrix[i].category \in Category

\* C5: a decoded object that lacks a required top-level key makes
\* materialisation fail with an error that names a missing key, and nothing
\* is returned.  (The error may be the KeyError of the lookup: the claim is
\* read by what the error reports, not by its class.)
C5_MissingKeyNamed ==
    (DecodedObject /\ Required \ DOMAIN data.obj # {})
        => /\ pc = "raised"
           /\ result = NoResult
           /\ \E k \in Required \ DOMAIN data.obj : NamesMissing(error, k)

\* the part of C5 the code keeps: a missing required key always ends the
\* call with an exception and no result
MissingKeyFails ==
    (DecodedObject /\ Required \ DOMAIN data.obj # {})
        => pc = "raised" /\ result = NoResult

\* C6: a returned result has every enum-typed field inside its closed set,
\* and a decoded object with a value outside one makes materialisation fail
\* with a ValidationError naming an offending path and its value.
C6_EnumsClosedOrNamed ==
    /\ pc = "returned" => EnumsClosed(result)
    /\ (DecodedObject /\ Offending(data.obj) # {})
          => /\ pc = "raised"
             /\ result = NoResult
             /\ \E p \in Offending(data.obj) : Names(error, p)

\* the part of C6 the code keeps: no result holds an out-of-set enum value,
\* and an out-of-set value always ends the call with an exception
EnumSafety ==
    /\ pc = "returned" => EnumsClosed(result)
    /\ (DecodedObject /\ Offending(data.obj) # {})
          => pc = "raised" /\ result = NoResult

\* the optional and list fields a decoded object omits
Omitted(o) ==
    {Path("", 0, k, None) : k \in {"executiveSummary", "riskMatrix"} \ DOMAIN o}
    \cup {Path("scope", 0, k, None) : k \in
            {y \in {"deliverables"} : "scope" \in DOMAIN o /\ y \notin DOMAIN o.scope}}
    \cup {Path("compliance", 0, k, None) : k \in
            {y \in {"sanctionsFlags", "adverseMedia", "financialSignals"} :
                "compliance" \in DOMAIN o /\ y \notin DOMAIN o.compliance}}
    \cup UNION {{Path("riskMatrix", i, "mitigation", None) : i \in
                   {j \in 1..Len(o[x]) : "mitigation" \notin DOMAIN o[x][j]}}
                : x \in {"riskMatrix"} \cap DOMAIN o}

\* the value the result holds at an optional or list field
At(r, p) ==
    IF p.root = "" THEN r[p.field]
    ELSE IF p.root = "riskMatrix" THEN r.riskMatrix[p.idx][p.field]
    ELSE r[p.root][p.field]

DefaultOf(p) == IF p.field = "mitigation" THEN None ELSE <<>>

\* C7: a decoded object with every required key and every enum in its set
\* that omits optional or list fields materialises, each omitted field
\* taking its default.
C7_OmittedFieldsDefault ==
    (/\ DecodedObject
     /\ Required \subseteq DOMAIN data.obj
     /\ Offending(data.obj) = {}
     /\ Omitted(data.obj) # {})
        => /\ pc = "returned"
           /\ \A p \in Omitted(data.obj) : At(result, p) = DefaultOf(p)

\* the part of C7 the code keeps: the two top-level lists read with
\* data.get default to the empty list
TopLevelListsDefault ==
    (pc = "returned" /\ DecodedObject)
        => \A k \in {"executiveSummary", "riskMatrix"} \ DOMAIN data.obj :
              result[k] = <<>>

\* C8: the exception class tells the cause.  An APIError leaves the call
\* exactly when a completion call failed, a JSONDecodeError exactly when the
\* repair output did not parse, and a ValidationError, KeyError or TypeError
\* exactly when a decoded value did not materialise; a call that raises
\* returns no result, and a call returns only when nothing failed.
C8_ErrorKindsDistinct ==
    /\ pc = "returned"
          => /\ error = NoError
             /\ resp1.status = "ok" /\ resp2.status # "failed"
             /\ parses[Len(parses)].ok
             /\ Materialize(data, pydantic) = Parsed(result)
    /\ pc = "raised" => (result = NoResult /\ error # NoError)
    /\ ~Terminal => (result = NoResult /\ error = NoError)
    /\ error.cls = "APIError"
          <=> (resp1.status = "failed" \/ resp2.status = "failed")
    /\ error.cls = "JSONDecodeError"
          <=> (resp2.status = "ok" /\ ~StrictParse(Trimmed(resp2)).ok)
    /\ error.cls \in {"ValidationError", "KeyError", "TypeError"}
          <=> (Decoded /\ ~Materialize(data, pydantic).ok)
    /\ error.cls \in {"none", "APIError", "JSONDecodeError", "ValidationError",
                      "KeyError", "TypeError", "RuntimeError"}
    /\ error.cls = "RuntimeError" <=> (pc = "raised" /\ ~apiKey)

C8_Witness ==
    /\ pc = "raised"
    /\ error.cls = "ValidationError"
    /\ resp2.status = "ok"
    /\ result = NoResult

\* a response that came back empty: content is None or ""
IsEmptyResp(r) == r.status = "ok" /\ (r.content.none \/ r.content.toks = <<>>)

\* C9: an empty first response fails the strict and the tolerant parse and
\* issues the RepairCall once; if the repair response is empty too the call
\* ends with a JSONDecodeError.
C9_EmptyResponse ==
    /\ IsEmptyResp(resp1)
          => /\ Len(parses) >= 2
             /\ SubSeq(parses, 1, 2) = <<Attempt("strict", "content", FALSE),
                                         Attempt("tolerant", "content", FALSE)>>
             /\ calls = <<AnalysisCall, RepairCall(EmptyText)>>
    /\ (IsEmptyResp(resp1) /\ IsEmptyResp(resp2))
          => /\ pc = "raised"
             /\ error.cls = "JSONDecodeError"
             /\ error.msg = "Expecting value"
             /\ Len(calls) = 2

C9_Witness ==
    /\ resp1 = Returned(NoContent)
    /\ resp2 = Returned(NoContent)
    /\ pc = "raised"
    /\ error.cls = "JSONDecodeError"

\* a response that is a well-formed JSON value inside markdown fences
IsFencedResp(r) ==
    r.status = "ok" /\ ~r.content.none
                    /\ RStrip(LStrip(r.content.toks)) = Fenced("val")

\* C10 as stated: a fenced first response never ends in a decode failure;
\* the call makes at most one RepairCall and the decode succeeds.
C10_FencedNeverDecodeError ==
    (IsFencedResp(resp1) /\ Terminal /\ resp2.status # "failed")
        => /\ RepairCalls <= 1
           /\ error.cls # "JSONDecodeError"
           /\ Decoded

\* C10 amended: neither tier accepts a fenced first response, so the
\* RepairCall is issued exactly once; the decode then succeeds exactly when
\* the trimmed repair output passes the strict parse, and otherwise the call
\* ends with a JSONDecodeError.
C10_FencedRepairDecides ==
    IsFencedResp(resp1)
        => /\ RepairCalls = 1
           /\ Len(parses) >= 2
           /\ SubSeq(parses, 1, 2) = <<Attempt("strict", "content", FALSE),
                                       Attempt("tolerant", "content", FALSE)>>
           /\ resp2.status = "ok"
                 => /\ Terminal
                    /\ Decoded <=> StrictParse(Trimmed(resp2)).ok
                    /\ error.cls = "JSONDecodeError"
                          <=> ~StrictParse(Trimmed(resp2)).ok

C10_Witness ==
    /\ IsFencedResp(resp1)
    /\ resp2.status = "ok"
    /\ RepairCalls = 1
    /\ pc = "returned"

\* completion calls issued and not yet answered
InFlight ==
    Len(calls) - (IF resp1 = NoResp THEN 0 ELSE 1)
               - (IF resp2 = NoResp THEN 0 ELSE 1)

\* the round-trips of one call happen one after the other: at most one call
\* is in flight, and a RepairCall is the second call, issued after the first
\* call returned a text that failed both parses
Sequential ==
    /\ InFlight \in {0, 1}
    /\ InFlight = 1 <=> pc \in {"call1", "call2"}
    /\ \A i \in DOMAIN calls :
          IF i = 1
          THEN calls[i] = AnalysisCall
          ELSE /\ calls[i].kind = "repair"
               /\ resp1.status = "ok"
               /\ FailsBoth(Trimmed(resp1))
               /\ calls[i].embeds = Trimmed(resp1)

\* C11 as stated: the round-trips are sequential and a call that has ended
\* made one, two or three of them.
C11_OneToThreeRoundTrips ==
    /\ Sequential
    /\ Terminal => Len(calls) \in {1, 2, 3}

\* C11 amended: the round-trips are sequential; a call that has ended made
\* none when OPENAI_API_KEY is missing, two when the first response failed
\* both parses, and one otherwise.  There is never a third.
C11_AtMostTwoRoundTrips ==
    /\ Sequential
    /\ Len(calls) <= 2
    /\ Terminal =>
          Len(calls) = IF ~apiKey THEN 0
                       ELSE IF resp1.status = "ok" /\ FailsBoth(Trimmed(resp1))
                            THEN 2 ELSE 1

C11_Witness ==
    /\ pc = "returned"
    /\ Len(calls) = 2
    /\ calls[2].kind = "repair"
    /\ InFlight = 0

\* the names a model declares
NamesOf(fields) == {f.name : f \in fields}

\* a dict holds exactly the fields of a model, the closed ones inside their
\* sets
Conforms(d, fields) ==
    /\ DOMAIN d = NamesOf(fields)
    /\ \A f \in fields :
          /\ f.kind = "risk" => d[f.name] \in RiskLevel
          /\ f.kind = "category" => d[f.name] \in Category

\* a JSON object that matches the schema
MatchesSchema(o) ==
    /\ DOMAIN o = Required \cup {"executiveSummary", "riskMatrix"}
    /\ o.overallRisk \in RiskLevel
    /\ Conforms(o.keyCommercials, KeyCommercialsFields)
    /\ \A i \in DOMAIN o.riskMatrix : Conforms(o.riskMatrix[i], RiskMatrixItemFields)
    /\ Conforms(o.scope, ScopeInfoFields)
    /\ Conforms(o.compliance, ComplianceInfoFields)

\* a first response whose text is valid JSON matching the schema
IsValidResp(r) ==
    /\ r.status = "ok"
    /\ ~r.content.none
    /\ RStrip(LStrip(r.content.toks)) = <<"val">>
    /\ r.content.doc.type = "object"
    /\ MatchesSchema(r.content.doc.obj)

\* C13: round-trip identity.  When the first response is valid JSON
\* matching the schema, the strict parse succeeds, neither the tolerant
\* parse nor the RepairCall runs, and the returned AnalysisResult equals the
\* decoded document field by field: lists in their order, strings and closed
\* values as given.
C13_RoundTripIdentity ==
    IsValidResp(resp1)
        => /\ pc = "returned"
           /\ parses = <<Attempt("strict", "content", TRUE)>>
           /\ calls = <<AnalysisCall>>
           /\ resp2 = NoResp
           /\ data = resp1.content.doc
           /\ result = resp1.content.doc.obj

C13_Witness ==
    /\ IsValidResp(resp1)
    /\ pc = "returned"
    /\ result.executiveSummary = <<"- one", "", "- one">>
    /\ result.keyCommercials.value = " USD 100,000 "
    /\ Len(result.riskMatrix) = 2
    /\ result.riskMatrix[1].mitigation = None
    /\ result.scope.deliverables = <<"services", "goods">>

\* the template as printed in the specification's external-interface section
SectionSixTemplate ==
    [overallRisk |-> OneOf(<<"High", "Medium", "Low", "Unknown">>, " | "),
     keyCommercials |-> [value |-> "", duration |-> "", contractType |-> "",
                         pricingModel |-> "", renewalTerms |-> ""],
     executiveSummary |-> <<"string">>,
     riskMatrix |->
        <<[category |-> OneOf(<<"Liability", "HSE", "Payment", "Termination",
                                "Legal">>, "|"),
           riskLevel |-> OneOf(<<"High", "Medium", "Low", "Unknown">>, "|"),
           description |-> "",
           mitigation |-> ""]>>,
     scope |-> [pricingModel |-> "", paymentTerms |-> "",
                deliverables |-> <<"string">>],
     compliance |->
        [summary |-> "",
         overallComplianceRisk |->
            OneOf(<<"High", "Medium", "Low", "Unknown">>, "|"),
         sanctionsFlags |-> <<"string">>,
         adverseMedia |-> <<"string">>,
         financialSignals |-> <<"string">>],
     detailedAnalysis |-> "Markdown with required headings"]

Range(s) == {s[i] : i \in DOMAIN s}

\* the placeholder of a field says what the schema declares for it
PlaceholderFits(p, kind) ==
    CASE kind = "risk" -> p.sep = " | " /\ Range(p.members) = RiskLevel
                                        /\ Len(p.members) = Cardinality(RiskLevel)
      [] kind = "category" -> p.sep = " | " /\ Range(p.members) = Category
                                            /\ Len(p.members) = Cardinality(Category)
      [] kind = "optional_str" -> p = "string or null"
      [] kind = "str" -> p = "string"
      [] kind = "list" -> Len(p) >= 1 /\ Range(p) = {"string"}

\* a template object has exactly the fields of a model, each with the
\* placeholder of its kind
TemplateFits(t, fields) ==
    /\ DOMAIN t = NamesOf(fields)
    /\ \A f \in fields : PlaceholderFits(t[f.name], f.kind)

\* keys and nesting of a template are those of the Schema Model
TemplateMatchesSchema(t) ==
    /\ DOMAIN t = Required \cup {"executiveSummary", "riskMatrix"}
    /\ PlaceholderFits(t.overallRisk, "risk")
    /\ TemplateFits(t.keyCommercials, KeyCommercialsFields)
    /\ PlaceholderFits(t.executiveSummary, "list")
    /\ Len(t.riskMatrix) = 1
    /\ TemplateFits(t.riskMatrix[1], RiskMatrixItemFields)
    /\ TemplateFits(t.scope, ScopeInfoFields)
    /\ TemplateFits(t.compliance, ComplianceInfoFields)

PromptBuilt == user_prompt # Unbound

\* C14 as stated: every user prompt contains the template of the
\* specification's external-interface section, placeholder values included,
\* and its keys and nesting match the Schema Model.
C14_SectionSixTemplateEmbedded ==
    PromptBuilt
        => /\ user_prompt.template = SectionSixTemplate
           /\ TemplateMatchesSchema(user_prompt.template)

\* C14 amended: every user prompt contains one and the same JSON template,
\* whatever the arguments; its keys and nesting are exactly the field names
\* of the Schema Model, and its placeholder values are the source's own:
\* the members of the closed set separated by " | " for a closed field,
\* "string or null" for an optional string, "string" for a string, and a
\* list of "string" for a list (they are not the values of the
\* specification's external-interface section).
C14_TemplateMatchesSchema ==
    PromptBuilt
        => /\ TemplateMatchesSchema(user_prompt.template)
           /\ user_prompt.template = UserPrompt(Args(<<>>, None, None)).template
           /\ user_prompt.template # SectionSixTemplate
           /\ user_prompt.contract_text = args.contract_text

C14_Witness ==
    /\ PromptBuilt
    /\ pc = "returned"
    /\ args.party_role = "vendor"
    /\ args.deal_context # None
    /\ DOMAIN user_prompt.template.riskMatrix[1] = NamesOf(RiskMatrixItemFields)

\* C15 as stated: party_role is replaced by "unspecified" exactly when it is
\* absent, deal_context by "No additional context provided." exactly when it
\* is absent or empty, and any other value is embedded unchanged.
C15_RoleDefaultOnlyWhenAbsent ==
    PromptBuilt
        => /\ user_prompt.role_text =
                 IF args.party_role = None THEN "unspecified"
                 ELSE args.party_role
           /\ user_prompt.context_text =
                 IF args.deal_context \in {None, ""}
                 THEN "No additional context provided."
                 ELSE args.deal_context

\* C15 amended: party_role is replaced by "unspecified" exactly when it is
\* absent or empty, deal_context by "No additional context provided."
\* exactly when it is absent or empty, and any other value is embedded
\* unchanged.
C15_DefaultsWhenAbsentOrEmpty ==
    PromptBuilt
        => /\ user_prompt.role_text =
                 IF args.party_role \in {None, ""} THEN "unspecified"
                 ELSE args.party_role
           /\ user_prompt.context_text =
                 IF args.deal_context \in {None, ""}
                 THEN "No additional context provided."
                 ELSE args.deal_context

C15_Witness ==
    /\ PromptBuilt
    /\ args.party_role = ""
    /\ user_prompt.role_text = "unspecified"
    /\ args.deal_context = ""
    /\ user_prompt.context_text = "No additional context provided."

NonBlank(text) == RStrip(LStrip(text)) # <<>>

\* C17: a Run Analysis click gets as far as analyze_contract, and so to a
\* completion call, only if OPENAI_API_KEY is set, the contract text is not
\* blank, and the license is validated or enforcement is off.  Otherwise the
\* run stops with no completion call made.
C17_RunGuarded ==
    /\ (pc # "idle" \/ calls # <<>> \/ user_prompt # Unbound) => ui = "analysis"
    /\ ui = "analysis"
          => /\ apiKey
             /\ NonBlank(args.contract_text)
             /\ session.license_valid \/ ~gumroad_license_enforced
             /\ calls # <<>>
    /\ ui = "no_api_key" => ~apiKey
    /\ ui = "license_required"
          => ~session.license_valid /\ gumroad_license_enforced
    /\ ui \in {"no_api_key", "license_required", "no_contract_text"}
          => pc = "idle" /\ calls = <<>>

C17_Witness ==
    /\ ui = "analysis"
    /\ gumroad_license_enforced
    /\ session.license_valid
    /\ pc = "returned"

\* the purchase of a reply is clean: success, and none of the five flags
Accepts(reply) ==
    /\ reply.kind = "object"
    /\ Truthy(reply.body, "success")
    /\ \A f \in PurchaseFlags :
          ~("purchase" \in DOMAIN reply.body
              /\ f \in DOMAIN reply.body.purchase
              /\ reply.body.purchase[f] = TRUE)

\* C18: verify_license fails closed.  With enforcement on it returns ok=True
\* only for a reply that reports success and a purchase that is not
\* refunded, chargebacked, disputed, subscription-cancelled or
\* subscription-ended; a blank key gives ok=False and no request; a request
\* that raises or a body that is not JSON gives ok=False; a reply that is
\* JSON but not an object makes it raise, so it returns no ok at all.  With
\* enforcement off it returns ok=True for every key and makes no request.
C18_FailsClosed ==
    \A k \in LicenseInputs, r \in ServerReplies :
        LET v == verify_license(k, r)
        IN  IF ~gumroad_license_enforced
            THEN ~v.raised /\ v.ok /\ ~v.post.made
            ELSE /\ ~NonBlank(k) => ~v.raised /\ ~v.ok /\ ~v.post.made
                 /\ NonBlank(k) => v.post.made
                 /\ (NonBlank(k) /\ r.kind \in {"exception", "not_json"})
                       => ~v.raised /\ ~v.ok
                 /\ v.raised => r.kind = "non_object"
                 /\ (~v.raised /\ v.ok) => NonBlank(k) /\ Accepts(r)

C18_Witness ==
    /\ gumroad_license_enforced
    /\ posted.made
    /\ posted.reply.kind = "object"
    /\ Truthy(posted.reply.body, "success")
    /\ Truthy(PurchaseOf(posted.reply.body), "subscription_ended")
    /\ ~session.license_valid
    /\ session.license_message = "This subscription has been cancelled or ended."

\* C19: license_owner is set only if license_valid is true, and every
\* validation overwrites the four license fields together: after a
\* validation whose reply the server did not accept, license_valid is false
\* and license_owner is None, whatever they were before.
C19_ValidationOverwrites ==
    /\ session.license_owner # None => session.license_valid
    /\ session.license_owner \in Emails \cup {None}
    /\ posted.made
          => /\ RStrip(LStrip(session.license_key)) = posted.license_key
             /\ session.license_valid <=> Accepts(posted.reply)
             /\ ~Accepts(posted.reply) => session.license_owner = None

\* the frame of request i, running or parked
FrameOf(i) == IF i = cur THEN Frame ELSE reqs[i]

Ended(pcv, res, err, cs, prompt) ==
    [pc |-> pcv, result |-> res, error |-> err, calls |-> cs,
     user_prompt |-> prompt]

\* how a call on its own ends: a function of its arguments, the environment
\* and the responses to its own completion calls
Alone(a, r1, r2) ==
    LET p == UserPrompt(a)
        one == <<AnalysisCall>>
        done(v, cs) ==
            LET mat == Materialize(v, pydantic)
            IN  IF mat.ok THEN Ended("returned", mat.value, NoError, cs, p)
                ELSE Ended("raised", NoResult, mat.err, cs, p)
    IN  IF ~apiKey THEN Ended("raised", NoResult, RuntimeError, <<>>, Unbound)
        ELSE IF r1.status = "failed"
        THEN Ended("raised", NoResult, APIError(r1.kind), one, p)
        ELSE IF r1.status # "ok" THEN Ended("none", NoResult, NoError, <<>>, p)
        ELSE LET t == Trimmed(r1)
                 two == <<AnalysisCall, RepairCall(t)>>
             IN  IF StrictParse(t).ok THEN done(StrictParse(t).value, one)
                 ELSE IF TolerantParse(t).ok
                 THEN done(TolerantParse(t).value, one)
                 ELSE IF r2.status = "failed"
                 THEN Ended("raised", NoResult, APIError(r2.kind), two, p)
                 ELSE IF r2.status # "ok"
                 THEN Ended("none", NoResult, NoError, two, p)
                 ELSE IF StrictParse(Trimmed(r2)).ok
                 THEN done(StrictParse(Trimmed(r2)).value, two)
                 ELSE Ended("raised", NoResult, StrictParse(Trimmed(r2)).err,
                            two, p)

\* what request i has ended with
OutcomeOf(f) == Ended(f.pc, f.result, f.error, f.calls, f.user_prompt)

\* C12: requests that run at the same time share no state that any of them
\* writes.  Under every interleaving each request keeps its own arguments,
\* and when it has ended, its result or exception, the calls it made and
\* the prompt it sent are what the same call, run alone in the same
\* environment, ends with for the same responses.
C12_RequestsIndependent ==
    /\ DOMAIN reqs = Requests \ {cur}
    /\ \A i \in Requests :
          LET f == FrameOf(i)
          IN  /\ f.args = RequestArgs(i)
              /\ f.user_prompt \in {Unbound, UserPrompt(f.args)}
              /\ f.pc \in {"returned", "raised"}
                    => OutcomeOf(f) = Alone(f.args, f.resp1, f.resp2)

C12_Witness ==
    /\ pc = "raised"
    /\ error.cls = "JSONDecodeError"
    /\ \E j \in DOMAIN reqs :
          /\ reqs[j].pc = "returned"
          /\ Len(reqs[j].calls) = 2
          /\ reqs[j].user_prompt # user_prompt

\* C16: the repair output is decoded by the strict parse only.  No tolerant
\* attempt is ever made on it, and a repair output the strict parse rejects
\* ends the call with that JSONDecodeError even when the tolerant decoder
\* would accept the same text.
C16_RepairStrictOnly ==
    /\ \A i \in DOMAIN parses :
          parses[i].of = "repaired" => parses[i].tier = "strict"
    /\ (resp2.status = "ok" /\ ~StrictParse(Trimmed(resp2)).ok)
          => /\ pc = "raised"
             /\ error = StrictParse(Trimmed(resp2)).err
             /\ data = NoDoc
             /\ result = NoResult
             /\ parses[Len(parses)] = Attempt("strict", "repaired", FALSE)

C16_Witness ==
    /\ resp2.status = "ok"
    /\ ~StrictParse(Trimmed(resp2)).ok
    /\ TolerantParse(Trimmed(resp2)).ok
    /\ Materialize(TolerantParse(Trimmed(resp2)).value, pydantic).ok
    /\ pc = "raised"
    /\ error.cls = "JSONDecodeError"

====
